---- MODULE Spec2Model ----
(***************************************************************************)
(* A model of noclaude, the command-line tool that rewrites a repository's *)
(* history: src/src/noclaude.ts (the first version, "v1", both flags       *)
(* mandatory) and src/unnamed/part_005 (the later version, "v2", with the  *)
(* four ranked identity sources and the dry-run flag).                     *)
(*                                                                         *)
(* Every string of the program is a sequence of symbols (a symbol is one   *)
(* character, or one fixed piece of text the program never looks into),    *)
(* so that trimming, splitting, concatenation and substitution are         *)
(* computed as the code computes them.  "" is <<>>.                        *)
(***************************************************************************)
EXTENDS Integers, Sequences, FiniteSets, TLC

VARIABLES
    version,      \* which source file runs: "v1" noclaude.ts, "v2" part_005
    argv,         \* process.argv.slice(2)
    envName,      \* process.env.GIT_AUTHOR_NAME
    envEmail,     \* process.env.GIT_AUTHOR_EMAIL
    envFile,      \* the .env file of the working directory (lines), or Missing
    gitName,      \* raw output of `git config user.name`, or Failed
    gitEmail,     \* raw output of `git config user.email`, or Failed
    pc,           \* position of main
    args,         \* the value parseArgs returned
    author,       \* the value getAuthorInfo returned ({name, email} of main)
    consulted,    \* the identity sources read so far
    out,          \* kinds of the lines written to stdout/stderr, in order
    shown,        \* the identity written by the 'Author will be set to' line
    rlOpen,       \* the shared readline interface rl is open
    exitCode,     \* the exit status of the process, NoExit while it runs
    execs,        \* the commands given to execSync by main, in order
    interrupted,  \* an interrupt arrived at the confirmation prompt
    answer,       \* the line the callback of rl.question received, or NoAnswer
    stdinEnded,   \* standard input ended at the prompt before a line was read
    msg,          \* a commit message given to the message filter (lines)
    filtered,     \* the output of the message filter on msg
    commit,       \* the identity fields of a commit given to the env filter
    stamped,      \* the identity fields the env filter leaves that commit with
    fileVars,     \* the value loadEnvFile returned
    errorMessage, \* the arguments of the console.error call of main's catch
    branch        \* the checked-out branch of the repository, or Detached

vars == <<version, argv, envName, envEmail, envFile, gitName, gitEmail, pc, args,
          author, consulted, out, shown, rlOpen, exitCode, execs, interrupted,
          answer, stdinEnded, msg, filtered, commit, stamped, fileVars, errorMessage,
          branch>>

inputVars == <<version, argv, envName, envEmail, envFile, gitName, gitEmail, branch>>

filterVars == <<msg, filtered, commit, stamped>>

promptVars == <<answer, stdinEnded>>

-----------------------------------------------------------------------------
(* Values *)

\* JavaScript's undefined (and null): no string at all.
Undef == <<"undefined">>

\* Truthy with the empty string taken for a value
Truthy_EmptyToo(v) == v # Undef

\* A value JavaScript treats as true: a string that is not empty.
Truthy(v) == v # Undef /\ v # <<>>

\* a || b
OrElse(a, b) == IF Truthy(a) THEN a ELSE b

\* existsSync(envPath) is false
Missing == << <<"ENOENT">> >>

\* execSync threw (git config exits nonzero when the key is not set)
Failed == <<"git config failed">>

\* The process has not exited.
NoExit == -1

\* Exit status of a process ended by SIGINT with no handler installed (128 + 2).
SigIntStatus == 130

Whitespace == {" ", "\t", "\n"}

RECURSIVE TrimStart(_)
TrimStart(s) ==
    IF s # <<>> /\ Head(s) \in Whitespace THEN TrimStart(Tail(s)) ELSE s

RECURSIVE TrimEnd(_)
TrimEnd(s) ==
    IF s # <<>> /\ s[Len(s)] \in Whitespace
    THEN TrimEnd(SubSeq(s, 1, Len(s) - 1))
    ELSE s

\* String.prototype.trim
Trim(s) == TrimEnd(TrimStart(s))

-----------------------------------------------------------------------------
(* parseArgs *)

NameFlags == {<<"--name">>, <<"-n">>}
EmailFlags == {<<"--email">>, <<"-e">>}
DryRunFlags == {<<"--dry-run">>, <<"-d">>}
HelpFlags == {<<"--help">>, <<"-h">>}

\* args[++i]: the next argument, undefined past the end
ArgAt(a, i) == IF i <= Len(a) THEN a[i] ELSE Undef

NoArgs == [name |-> Undef, email |-> Undef, dryRun |-> FALSE]

\* The loop of parseArgs from index i on: the parsed flags, or help (the
\* usage text is written and the process exits 0 inside the loop).
RECURSIVE ParseLoop(_, _, _, _)
ParseLoop(ver, a, i, parsed) ==
    IF i > Len(a) THEN [help |-> FALSE, parsed |-> parsed]
    ELSE IF a[i] \in NameFlags
         THEN ParseLoop(ver, a, i + 2, [parsed EXCEPT !.name = ArgAt(a, i + 1)])
    ELSE IF a[i] \in EmailFlags
         THEN ParseLoop(ver, a, i + 2, [parsed EXCEPT !.email = ArgAt(a, i + 1)])
    ELSE IF ver = "v2" /\ a[i] \in DryRunFlags
         THEN ParseLoop(ver, a, i + 1, [parsed EXCEPT !.dryRun = TRUE])
    ELSE IF a[i] \in HelpFlags
         THEN [help |-> TRUE, parsed |-> parsed]
    ELSE ParseLoop(ver, a, i + 1, parsed)

\* RequiredMissing with && for ||
RequiredMissing_Both(parsed) == ~Truthy(parsed.name) /\ ~Truthy(parsed.email)

\* v1 only: if (!parsed.name || !parsed.email) process.exit(1)
RequiredMissing(parsed) == ~Truthy(parsed.name) \/ ~Truthy(parsed.email)

-----------------------------------------------------------------------------
(* loadEnvFile, getGitConfig *)

KeyName == <<"GIT_AUTHOR_NAME">>
KeyEmail == <<"GIT_AUTHOR_EMAIL">>

Quotes == {"\"", "'"}

\* Index of the first "=" of s, 0 when there is none
RECURSIVE FirstEq(_, _)
FirstEq(s, i) ==
    IF i > Len(s) THEN 0 ELSE IF s[i] = "=" THEN i ELSE FirstEq(s, i + 1)

\* const [key, ...valueParts] = trimmed.split('=')
KeyOf(s) == IF FirstEq(s, 1) = 0 THEN s ELSE SubSeq(s, 1, FirstEq(s, 1) - 1)

\* valueParts.join('=')
RawValueOf(s) ==
    IF FirstEq(s, 1) = 0 THEN <<>> ELSE SubSeq(s, FirstEq(s, 1) + 1, Len(s))

\* .replace(/^["']|["']$/g, ''): a quote at the start is removed, and a quote
\* at the end of what is left is removed
StripQuotes(v) ==
    LET v1 == IF v # <<>> /\ Head(v) \in Quotes THEN Tail(v) ELSE v
    IN  IF v1 # <<>> /\ v1[Len(v1)] \in Quotes
        THEN SubSeq(v1, 1, Len(v1) - 1)
        ELSE v1

ValueOf(s) == StripQuotes(RawValueOf(s))

\* envVars[key] = value
Put(m, k, v) == [x \in DOMAIN m \cup {k} |-> IF x = k THEN v ELSE m[x]]

\* envVars.KEY, undefined when the key is absent
Get(m, k) == IF k \in DOMAIN m THEN m[k] ELSE Undef

\* EnvLine without the checks: every line makes an entry
EnvLine_NoSkip(m, line) ==
    Put(m, Trim(KeyOf(Trim(line))), Trim(ValueOf(Trim(line))))

\* The body of the forEach of loadEnvFile for one line
EnvLine(m, line) ==
    LET trimmed == Trim(line)
    IN  IF trimmed # <<>> /\ Head(trimmed) # "#"
           /\ KeyOf(trimmed) # <<>> /\ ValueOf(trimmed) # <<>>
        THEN Put(m, Trim(KeyOf(trimmed)), Trim(ValueOf(trimmed)))
        ELSE m

RECURSIVE EnvLines(_, _)
EnvLines(m, lines) ==
    IF lines = <<>> THEN m ELSE EnvLines(EnvLine(m, Head(lines)), Tail(lines))

\* loadEnvFile(): {} when the file does not exist
loadEnvFile(file) == IF file = Missing THEN <<>> ELSE EnvLines(<<>>, file)

\* getGitConfig handing the failure on as if it were the command's output
getGitConfig_Raw(raw) == Trim(raw)

\* getGitConfig(key): null (here Undef) when the command fails
getGitConfig(raw) == IF raw = Failed THEN Undef ELSE Trim(raw)

-----------------------------------------------------------------------------
(* getAuthorInfo *)

\* FlagsComplete with the flags never taken as complete (priority 1 dropped)
FlagsComplete_Never(a) == FALSE

\* if (args.name && args.email)
FlagsComplete(a) == Truthy(a.name) /\ Truthy(a.email)

\* Complete with || for &&
Complete_Either(n, e) == Truthy(n) \/ Truthy(e)

\* if (name && email)
Complete(n, e) == Truthy(n) /\ Truthy(e)

\* StillMissing with && for ||
StillMissing_Both(n, e) == ~Truthy(n) /\ ~Truthy(e)

\* if (!name || !email)
StillMissing(n, e) == ~Truthy(n) \/ ~Truthy(e)

Returned(n, e, read) == [ok |-> TRUE, name |-> n, email |-> e, consulted |-> read]

\* FromFileAndGit with the .env file ranked above the environment
FromFileAndGit_FileFirst(n2, e2, file, gn, ge) ==
    LET envVars == loadEnvFile(file)
        n3 == OrElse(Get(envVars, KeyName), n2)
        e3 == OrElse(Get(envVars, KeyEmail), e2)
    IN  IF Complete(n3, e3) THEN Returned(n3, e3, {"env", "file"})
        ELSE [ok |-> FALSE, name |-> n3, email |-> e3, consulted |-> {"env", "file"}]

\* Priority 3 and 4, reached with the environment's values in n2, e2
FromFileAndGit(n2, e2, file, gn, ge) ==
    LET envVars == loadEnvFile(file)
        n3 == OrElse(n2, Get(envVars, KeyName))
        e3 == OrElse(e2, Get(envVars, KeyEmail))
        n4 == OrElse(OrElse(n3, getGitConfig(gn)), Undef)
        e4 == OrElse(OrElse(e3, getGitConfig(ge)), Undef)
        read == {"env", "file"}
                  \cup (IF Truthy(n3) THEN {} ELSE {"git.name"})
                  \cup (IF Truthy(e3) THEN {} ELSE {"git.email"})
    IN  IF Complete(n3, e3) THEN Returned(n3, e3, {"env", "file"})
        ELSE IF StillMissing(n4, e4)
             THEN [ok |-> FALSE, name |-> n4, email |-> e4, consulted |-> read]
             ELSE Returned(n4, e4, read)

\* getAuthorInfo(args) in an environment (en, ee), a .env file and a git
\* configuration (gn, ge): the identity returned, or ok = FALSE when it ends
\* in process.exit(1); consulted lists the sources it read
getAuthorInfo(a, en, ee, file, gn, ge) ==
    IF FlagsComplete(a) THEN Returned(a.name, a.email, {})
    ELSE IF Complete(en, ee) THEN Returned(en, ee, {"env"})
    ELSE FromFileAndGit(en, ee, file, gn, ge)

-----------------------------------------------------------------------------
(* main: the command it gives to the shell *)

\* The text the sed pattern of the first s command matches.  noclaude.ts
\* spells the robot emoji; part_005 holds the four characters the emoji's
\* bytes give when read as Latin-1.  "GEN" stands for the rest of the line,
\* " Generated with [Claude Code](https://claude.com/claude-code)".
MarkerPattern(ver) == IF ver = "v1" THEN <<"ROBOT", "GEN">> ELSE <<"MOJIBAKE", "GEN">>

\* 'Co-Authored-By: Claude <noreply@anthropic.com>', in two parts
TrailerPattern == <<"Co-Authored-By: ", "Claude <noreply@anthropic.com>">>

\* The template literal given to execSync: the shell command line
RewriteCommand(ver, n, e) ==
    <<"git filter-branch --env-filter '", "export GIT_AUTHOR_NAME=\"">> \o n
    \o <<"\"", "export GIT_AUTHOR_EMAIL=\"">> \o e
    \o <<"\"", "export GIT_COMMITTER_NAME=\"">> \o n
    \o <<"\"", "export GIT_COMMITTER_EMAIL=\"">> \o e
    \o <<"\"", "' --msg-filter '", "sed -e \"s/">> \o MarkerPattern(ver)
    \o <<"//g\"", "-e \"s/">> \o TrailerPattern
    \o <<"//g\"", "-e \"/^[[:space:]]*$/d\"", "' --tag-name-filter cat -- --all">>

\* SubprocessEnv with the committer left as the process environment has it
SubprocessEnv_AuthorOnly(n, e) ==
    [GIT_AUTHOR_NAME |-> n, GIT_AUTHOR_EMAIL |-> e,
     GIT_COMMITTER_NAME |-> Undef, GIT_COMMITTER_EMAIL |-> Undef]

\* const env = {...process.env, GIT_AUTHOR_NAME: name, ...}
SubprocessEnv(n, e) ==
    [GIT_AUTHOR_NAME |-> n, GIT_AUTHOR_EMAIL |-> e,
     GIT_COMMITTER_NAME |-> n, GIT_COMMITTER_EMAIL |-> e]

\* IsDryRun with the flag ignored
IsDryRun_Ignored(ver, a) == FALSE

\* if (args.dryRun)
IsDryRun(ver, a) == ver = "v2" /\ a.dryRun

NoAuthor == [name |-> Undef, email |-> Undef]

-----------------------------------------------------------------------------
(* Inputs of a run *)

\* Longest argument list
MaxArgs == 4

Versions == {"v1", "v2"}

Tokens == {<<"--name">>, <<"--email">>, <<"--dry-run">>, <<"--help">>, <<"A">>, <<>>}

Argvs == UNION {[1..n -> Tokens] : n \in 0..MaxArgs}

EnvNames == {Undef, <<"E", "n">>}
EnvEmails == {Undef, <<"E", "e">>}

FileBoth ==
    << <<"GIT_AUTHOR_NAME", "=", "F", "n">>, <<"GIT_AUTHOR_EMAIL", "=", "\"", "F", "e", "\"">> >>

EnvFiles == {Missing, FileBoth}

GitNames == {Failed, <<"G", "n", "\n">>}
GitEmails == {Failed, <<"G", "e", "\n">>}

\* What the subprocess of the rewrite exits with
ExitStatuses == {0, 1}

\* The line typed at the prompt
Answers == {<<>>, <<"y">>, <<"n", "o">>}

-----------------------------------------------------------------------------
(* main *)

\* An environment in which no source below the flags supplies anything.
\* noclaude.ts reads none of them, so its runs start from this one.
NoSources ==
    /\ envName = Undef
    /\ envEmail = Undef
    /\ envFile = Missing
    /\ gitName = Failed
    /\ gitEmail = Failed

\* git rev-parse --abbrev-ref HEAD names no branch (detached HEAD, no commit)
Detached == <<"HEAD">>

\* No commit has gone through the env filter
NoCommit ==
    [GIT_AUTHOR_NAME |-> Undef, GIT_AUTHOR_EMAIL |-> Undef,
     GIT_COMMITTER_NAME |-> Undef, GIT_COMMITTER_EMAIL |-> Undef]

\* The filters of the rewrite have been given nothing
NoFilter == msg = <<>> /\ filtered = <<>> /\ commit = NoCommit /\ stamped = NoCommit

\* loadEnvFile has not been called
NotLoaded == <<"not loaded">>

\* The callback of rl.question has not been called
NoAnswer == <<"no line read">>

\* The state of the process when main is called
Started ==
    /\ author = NoAuthor
    /\ consulted = {}
    /\ out = <<>>
    /\ shown = NoAuthor
    /\ rlOpen = TRUE
    /\ exitCode = NoExit
    /\ execs = <<>>
    /\ interrupted = FALSE
    /\ answer = NoAnswer
    /\ stdinEnded = FALSE
    /\ errorMessage = <<>>

Init ==
    /\ version \in Versions
    /\ argv \in Argvs
    /\ envName \in EnvNames
    /\ envEmail \in EnvEmails
    /\ envFile \in EnvFiles
    /\ gitName \in GitNames
    /\ gitEmail \in GitEmails
    /\ version = "v1" => NoSources
    /\ pc = "start"
    /\ args = NoArgs
    /\ Started
    /\ branch = Detached
    /\ NoFilter
    /\ fileVars = NotLoaded

\* process.exit(code)
Exit(code) == pc' = "exited" /\ exitCode' = code

\* const args = parseArgs()   [v1: const { name, email } = parseArgs()]
parseArgs ==
    /\ pc = "start"
    /\ LET r == ParseLoop(version, argv, 1, NoArgs)
       IN  IF r.help
           THEN /\ out' = Append(out, "usage")
                /\ Exit(0)
                /\ UNCHANGED <<args, author>>
           ELSE IF version = "v1" /\ RequiredMissing(r.parsed)
           THEN /\ out' = out \o <<"error: both flags required", "error: see --help">>
                /\ Exit(1)
                /\ UNCHANGED <<args, author>>
           ELSE /\ args' = r.parsed
                /\ author' = IF version = "v1"
                             THEN [name |-> r.parsed.name, email |-> r.parsed.email]
                             ELSE author
                /\ pc' = IF version = "v1" THEN "announce" ELSE "resolve"
                /\ UNCHANGED <<out, exitCode>>
    /\ UNCHANGED <<inputVars, consulted, shown, rlOpen, execs, interrupted, promptVars,
                   filterVars, fileVars, errorMessage>>

\* const { name, email } = getAuthorInfo(args)
GetAuthor ==
    /\ pc = "resolve"
    /\ \E r \in {getAuthorInfo(args, envName, envEmail, envFile, gitName, gitEmail)} :
           /\ consulted' = r.consulted
           /\ IF r.ok
              THEN /\ author' = [name |-> r.name, email |-> r.email]
                   /\ pc' = "announce"
                   /\ UNCHANGED <<out, exitCode>>
              ELSE /\ out' = out \o <<"error: no author information", "error: how to supply it">>
                   /\ Exit(1)
                   /\ UNCHANGED author
    /\ UNCHANGED <<inputVars, args, shown, rlOpen, execs, interrupted, promptVars,
                   filterVars, fileVars, errorMessage>>

\* Announce going to the question without the warning and the identity line
Announce_Silent ==
    /\ pc = "announce"
    /\ out' = out \o <<"question">>
    /\ pc' = "prompt"
    /\ UNCHANGED <<inputVars, args, author, consulted, shown, rlOpen, exitCode, execs,
                   interrupted, promptVars, filterVars, fileVars, errorMessage>>

\* Announce with a dry-run preview that returns without rl.close()
Announce_ReaderLeftOpen ==
    /\ pc = "announce"
    /\ shown' = author
    /\ IF IsDryRun(version, args)
       THEN /\ out' = out \o <<"warning", "author", "dry run", "would execute", "rerun">>
            /\ pc' = "returned"
       ELSE /\ out' = out \o <<"warning", "author", "press enter", "question">>
            /\ pc' = "prompt"
    /\ UNCHANGED <<inputVars, args, author, consulted, rlOpen, exitCode, execs,
                   interrupted, promptVars, filterVars, fileVars, errorMessage>>

\* The two console.log lines, then the dry-run preview (rl.close(); return)
\* or the line 'Press Ctrl+C to cancel' and the call of prompt('')
Announce ==
    /\ pc = "announce"
    /\ shown' = author
    /\ IF IsDryRun(version, args)
       THEN /\ out' = out \o <<"warning", "author", "dry run", "would execute", "rerun">>
            /\ rlOpen' = FALSE
            /\ pc' = "returned"
       ELSE /\ out' = out \o <<"warning", "author", "press enter", "question">>
            /\ pc' = "prompt"
            /\ UNCHANGED rlOpen
    /\ UNCHANGED <<inputVars, args, author, consulted, exitCode, execs, interrupted, promptVars,
                   filterVars, fileVars, errorMessage>>

\* The message of the Error execSync throws when the command exits nonzero.
\* With stdio 'inherit' the Error holds none of the command's output.
CommandFailed(cmd) == <<"Command failed: ">> \o cmd

\* console.error('Error:', (error as Error).message)
CaughtError(cmd) == <<<<"Error:">>, CommandFailed(cmd)>>

\* OnRewriteError asking again instead of exiting
OnRewriteError_Retry == pc' = "prompt" /\ exitCode' = exitCode

\* catch (error) { console.error(...); process.exit(1) }
OnRewriteError == Exit(1)

\* AnswerLine taking the line 'no' for a refusal: main returns without the
\* rewrite
AnswerLine_UnlessNo ==
    /\ pc = "prompt"
    /\ answer' = <<"n", "o">>
    /\ out' = out \o <<"line", "cancelled">>
    /\ rlOpen' = FALSE
    /\ pc' = "returned"
    /\ UNCHANGED <<inputVars, args, author, consulted, shown, exitCode, execs,
                   interrupted, stdinEnded, filterVars, fileVars, errorMessage>>

\* rl.question's callback resolves the promise and main goes on: the try
\* block with the execSync of the rewrite, catch and finally
AnswerLine ==
    /\ pc = "prompt"
    /\ \E line \in Answers, status \in ExitStatuses :
          /\ answer' = line
          /\ execs' = Append(execs,
                  [cmd |-> RewriteCommand(version, author.name, author.email),
                   env |-> SubprocessEnv(author.name, author.email),
                   status |-> status])
          /\ IF status = 0
             THEN /\ out' = out \o <<"line", "rewriting", "rewritten", "push hint">>
                  /\ rlOpen' = FALSE
                  /\ pc' = "returned"
                  /\ UNCHANGED <<exitCode, errorMessage>>
             ELSE /\ out' = out \o <<"line", "rewriting", "error: command failed">>
                  /\ errorMessage' =
                        CaughtError(RewriteCommand(version, author.name, author.email))
                  /\ OnRewriteError
                  /\ UNCHANGED rlOpen
    /\ UNCHANGED <<inputVars, args, author, consulted, shown, interrupted, stdinEnded,
                   filterVars, fileVars>>

\* How an interrupt at the prompt ends the process.  Neither file installs a
\* SIGINT handler.  A Ctrl+C keypress on a terminal is read by readline, which
\* closes rl: the promise never resolves, nothing is left to wait for and the
\* process ends with status 0.  A SIGINT signal ends the process with the
\* signal's status.
InterruptStatuses == {0, SigIntStatus}

\* Interrupt with a handler that swallows the signal: main keeps waiting
Interrupt_Swallowed ==
    /\ pc = "prompt"
    /\ interrupted' = TRUE
    /\ UNCHANGED <<inputVars, pc, args, author, consulted, out, shown, rlOpen,
                   exitCode, execs, promptVars, filterVars, fileVars, errorMessage>>

\* An interrupt while main awaits the line
Interrupt ==
    /\ pc = "prompt"
    /\ interrupted' = TRUE
    /\ \E code \in InterruptStatuses :
          /\ Exit(code)
          /\ rlOpen' = IF code = 0 THEN FALSE ELSE rlOpen
    /\ UNCHANGED <<inputVars, args, author, consulted, out, shown, execs, promptVars,
                   filterVars, fileVars, errorMessage>>

\* Standard input ends while main awaits the line (Ctrl+D on a terminal, a
\* closed pipe, /dev/null).  readline closes rl without calling the callback
\* of rl.question: the promise never resolves, nothing is left to wait for
\* and the process ends with status 0, the rewrite not run.
EndOfInput ==
    /\ pc = "prompt"
    /\ stdinEnded' = TRUE
    /\ rlOpen' = FALSE
    /\ Exit(0)
    /\ UNCHANGED <<inputVars, args, author, consulted, out, shown, execs, interrupted,
                   answer, filterVars, fileVars, errorMessage>>

\* main has returned and rl is closed: nothing keeps the process alive
ProcessEnd ==
    /\ pc = "returned"
    /\ ~rlOpen
    /\ Exit(0)
    /\ UNCHANGED <<inputVars, args, author, consulted, out, shown, rlOpen, execs,
                   interrupted, promptVars, filterVars, fileVars, errorMessage>>

Next ==
    \/ parseArgs
    \/ GetAuthor
    \/ Announce
    \/ AnswerLine
    \/ Interrupt
    \/ EndOfInput
    \/ ProcessEnd

Spec == Init /\ [][Next]_vars

-----------------------------------------------------------------------------
(* getAuthorInfo on its own: main of part_005 from the call of getAuthorInfo *)
(* on, for every value parseArgs can return and every state of the sources   *)

FlagValues == {Undef, <<>>, <<"A">>}
EnvValues == {Undef, <<>>, <<"E">>}

\* .env files: absent, empty, one field, both fields (quoted), a name whose
\* quotes hold nothing, a name whose quotes hold a blank
FileName == <<"GIT_AUTHOR_NAME", "=", "F", "n">>
FileEmail == <<"GIT_AUTHOR_EMAIL", "=", "'", "F", "e", "'">>
FileEmptyName == <<"GIT_AUTHOR_NAME", "=", "\"", "\"">>
FileBlankName == <<"GIT_AUTHOR_NAME", "=", "\"", " ", "\"">>

ResolveFiles ==
    {Missing, <<>>, <<FileName>>, <<FileEmail>>, <<FileName, FileEmail>>,
     <<FileEmptyName, FileEmail>>, <<FileBlankName, FileEmail>>}

\* git config: the key is not set, is set to blanks, is set
GitValues == {Failed, <<" ", "\n">>, <<"G", "\n">>}

InitResolve ==
    /\ version = "v2"
    /\ argv = <<>>
    /\ envName \in EnvValues
    /\ envEmail \in EnvValues
    /\ envFile \in ResolveFiles
    /\ gitName \in GitValues
    /\ gitEmail \in GitValues
    /\ pc = "resolve"
    /\ Started
    /\ args \in [name : FlagValues, email : FlagValues, dryRun : BOOLEAN]
    /\ branch = Detached
    /\ NoFilter
    /\ fileVars = NotLoaded

NextResolve ==
    \/ GetAuthor
    \/ Announce
    \/ AnswerLine
    \/ Interrupt
    \/ EndOfInput
    \/ ProcessEnd

SpecResolve == InitResolve /\ [][NextResolve]_vars

-----------------------------------------------------------------------------
(* The push after the rewrite.  part_005 only prints the push command; the *)
(* version with --auto-push runs it.  That version's main is modelled here *)
(* as part_005's main with the push stage placed where part_005 prints the *)
(* hint: args carries the autoPush field and the stage reads branch.       *)

\* PushCommand without the lease
PushCommand_Force(b) == <<"git push ", "--force", " origin ">> \o b

\* The push command for branch b
PushCommand(b) == <<"git push ", "--force-with-lease", " origin ">> \o b

\* A command of execs is a push
IsPush(c) == Head(c.cmd) = "git push "

\* The rewrite succeeded, so a failed push ends the process as a failed
\* rewrite does
OnPushError_Fatal == Exit(1) /\ rlOpen' = rlOpen

\* A failed or skipped push is reported and main returns as after a rewrite
\* without push
OnPushError == pc' = "returned" /\ rlOpen' = FALSE /\ exitCode' = exitCode

\* rl.question's callback in the version with --auto-push: the rewrite, then
\* the push stage
AnswerLineAutoPush ==
    /\ pc = "prompt"
    /\ \E line \in Answers, status \in ExitStatuses, pushStatus \in ExitStatuses :
          /\ answer' = line
          /\ LET rewrite == [cmd |-> RewriteCommand(version, author.name, author.email),
                             env |-> SubprocessEnv(author.name, author.email),
                             status |-> status]
                 push == [cmd |-> PushCommand(branch),
                          env |-> SubprocessEnv(Undef, Undef),
                          status |-> pushStatus]
                 done == <<"line", "rewriting", "rewritten">>
             IN  IF status # 0
                 THEN /\ execs' = Append(execs, rewrite)
                      /\ out' = out \o <<"line", "rewriting", "error: command failed">>
                      /\ errorMessage' = CaughtError(rewrite.cmd)
                      /\ OnRewriteError
                      /\ UNCHANGED rlOpen
                 ELSE IF ~args.autoPush
                 THEN /\ execs' = Append(execs, rewrite)
                      /\ out' = out \o done \o <<"push hint">>
                      /\ rlOpen' = FALSE
                      /\ pc' = "returned"
                      /\ UNCHANGED <<exitCode, errorMessage>>
                 ELSE IF branch = Detached
                 THEN /\ execs' = Append(execs, rewrite)
                      /\ out' = out \o done \o <<"push skipped: no branch", "push guidance">>
                      /\ OnPushError
                      /\ UNCHANGED errorMessage
                 ELSE IF pushStatus # 0
                 THEN /\ execs' = execs \o <<rewrite, push>>
                      /\ out' = out \o done \o <<"pushing", "push failed", "push guidance">>
                      /\ OnPushError
                      /\ UNCHANGED errorMessage
                 ELSE /\ execs' = execs \o <<rewrite, push>>
                      /\ out' = out \o done \o <<"pushing", "pushed">>
                      /\ rlOpen' = FALSE
                      /\ pc' = "returned"
                      /\ UNCHANGED <<exitCode, errorMessage>>
    /\ UNCHANGED <<inputVars, args, author, consulted, shown, interrupted, stdinEnded,
                   filterVars, fileVars>>

\* Identities given by the two flags
PushAuthors == {[name |-> <<"A">>, email |-> <<"A", "e">>],
                [name |-> <<"E">>, email |-> <<"E", "e">>]}

Branches == {Detached, <<"main">>, <<"dev">>}

InitPush ==
    /\ version = "v2"
    /\ argv = <<>>
    /\ NoSources
    /\ pc = "resolve"
    /\ Started
    /\ \E a \in PushAuthors :
          args \in [name : {a.name}, email : {a.email}, dryRun : BOOLEAN, autoPush : BOOLEAN]
    /\ branch \in Branches
    /\ NoFilter
    /\ fileVars = NotLoaded

NextPush ==
    \/ GetAuthor
    \/ Announce
    \/ AnswerLineAutoPush
    \/ Interrupt
    \/ EndOfInput
    \/ ProcessEnd

SpecPush == InitPush /\ [][NextPush]_vars

-----------------------------------------------------------------------------
(* The message filter: the sed script main gives to --msg-filter *)

\* The attribution line found in commit messages (it starts with the emoji)
Marker == <<"ROBOT", "GEN">>

\* The trailer found in commit messages
Trailer == TrailerPattern

\* p is a prefix of s
StartsWith(s, p) == Len(p) <= Len(s) /\ SubSeq(s, 1, Len(p)) = p

\* s/p//g on one line: every match is deleted, left to right, and the scan
\* goes on after the match
RECURSIVE DeleteAll(_, _)
DeleteAll(s, p) ==
    IF s = <<>> THEN <<>>
    ELSE IF StartsWith(s, p) THEN DeleteAll(SubSeq(s, Len(p) + 1, Len(s)), p)
    ELSE <<Head(s)>> \o DeleteAll(Tail(s), p)

\* [[:space:]]
SpaceClass == {" ", "\t"}

\* /^[[:space:]]*$/
IsBlank(line) == \A i \in 1..Len(line) : line[i] \in SpaceClass

\* The two s commands on one line
Substituted(ver, line) == DeleteAll(DeleteAll(line, MarkerPattern(ver)), TrailerPattern)

\* /^[[:space:]]*$/d: the line is deleted, nothing is written for it
Deleted(line) == IsBlank(line)

\* sed runs the script on each line of the message in turn
RECURSIVE MsgFilter(_, _)
MsgFilter(ver, m) ==
    IF m = <<>> THEN <<>>
    ELSE LET line == Substituted(ver, Head(m))
         IN  (IF Deleted(line) THEN <<>> ELSE <<line>>) \o MsgFilter(ver, Tail(m))

\* p occurs in line
Occurs(line, p) == \E i \in 1..Len(line) : StartsWith(SubSeq(line, i, Len(line)), p)

\* p occurs in a line of m
Contains(m, p) == \E k \in 1..Len(m) : Occurs(m[k], p)

\* Longest line of the one-line messages
MaxLineLen == 4

\* Most lines of a message made of the sample lines
MaxLines == 3

Symbols ==
    {"x", " ", "ROBOT", "MOJIBAKE", "GEN", "Co-Authored-By: ", "Claude <noreply@anthropic.com>"}

Lines == UNION {[1..n -> Symbols] : n \in 0..MaxLineLen}

SampleLines ==
    {<<>>, <<" ">>, <<"x">>, <<"x", " ", "x">>, Marker, Trailer,
     <<"x">> \o Marker, MarkerPattern("v2")}

Messages ==
    {<<l>> : l \in Lines} \cup UNION {[1..n -> SampleLines] : n \in 0..MaxLines}

\* No output yet
Unfiltered == << <<"unfiltered">> >>

InitFilter ==
    /\ version \in Versions
    /\ msg \in Messages
    /\ filtered = Unfiltered
    /\ pc = "filter"
    /\ argv = <<>>
    /\ NoSources
    /\ args = NoArgs
    /\ Started
    /\ branch = Detached
    /\ commit = NoCommit
    /\ stamped = NoCommit
    /\ fileVars = NotLoaded

\* git filter-branch pipes one commit message through the filter
ApplyFilter ==
    /\ pc = "filter"
    /\ filtered' = MsgFilter(version, msg)
    /\ pc' = "filtered"
    /\ UNCHANGED <<inputVars, args, author, consulted, out, shown, rlOpen, exitCode,
                   execs, interrupted, promptVars, msg, commit, stamped, fileVars,
                   errorMessage>>

NextFilter == ApplyFilter

SpecFilter == InitFilter /\ [][NextFilter]_vars

-----------------------------------------------------------------------------
(* The identity filter: the script main gives to --env-filter.  For each   *)
(* commit git filter-branch sets the four variables from the commit, then  *)
(* has the shell evaluate the script, which holds the name and the email   *)
(* as text between double quotes.                                          *)

\* What the shell variable HOME holds where the rewrite runs
HomeDir == <<"/", "h">>

\* The value of the shell word "s": between double quotes a parameter
\* expansion is replaced by the parameter's value, other text stands for itself
RECURSIVE Expand(_)
Expand(s) ==
    IF s = <<>> THEN <<>>
    ELSE (IF Head(s) = "$HOME" THEN HomeDir ELSE <<Head(s)>>) \o Expand(Tail(s))

\* The four export lines, evaluated for commit c: every field is assigned,
\* whatever c held
EnvFilter(n, e, c) ==
    [GIT_AUTHOR_NAME |-> Expand(n), GIT_AUTHOR_EMAIL |-> Expand(e),
     GIT_COMMITTER_NAME |-> Expand(n), GIT_COMMITTER_EMAIL |-> Expand(e)]

\* Longest resolved name
MaxNameLen == 2

NameSymbols == {"a", " ", "$HOME"}

StampNames == UNION {[1..n -> NameSymbols] : n \in 1..MaxNameLen}

StampEmails == {<<"e">>, <<"e", "$HOME">>}

\* Commits of the repository: written by the resolved author or by another,
\* committed by the same person or by another
Commits ==
    [GIT_AUTHOR_NAME : {<<"a">>, <<"o">>}, GIT_AUTHOR_EMAIL : {<<"o", "e">>},
     GIT_COMMITTER_NAME : {<<"o">>, <<"c">>}, GIT_COMMITTER_EMAIL : {<<"o", "e">>}]

InitStamp ==
    /\ version \in Versions
    /\ commit \in Commits
    /\ stamped = NoCommit
    /\ pc = "env-filter"
    /\ argv = <<>>
    /\ NoSources
    /\ args = NoArgs
    /\ author \in [name : StampNames, email : StampEmails]
    /\ shown = author
    /\ consulted = {}
    /\ out = <<"warning", "author", "press enter", "question", "line", "rewriting">>
    /\ rlOpen = TRUE
    /\ exitCode = NoExit
    /\ execs = <<>>
    /\ interrupted = FALSE
    /\ answer = <<"y">>
    /\ stdinEnded = FALSE
    /\ errorMessage = <<>>
    /\ branch = Detached
    /\ msg = <<>>
    /\ filtered = <<>>
    /\ fileVars = NotLoaded

\* git filter-branch evaluates the env filter for one commit
ApplyEnvFilter ==
    /\ pc = "env-filter"
    /\ stamped' = EnvFilter(author.name, author.email, commit)
    /\ pc' = "stamped"
    /\ UNCHANGED <<inputVars, args, author, consulted, out, shown, rlOpen, exitCode,
                   execs, interrupted, promptVars, msg, filtered, commit, fileVars,
                   errorMessage>>

NextStamp == ApplyEnvFilter

SpecStamp == InitStamp /\ [][NextStamp]_vars

-----------------------------------------------------------------------------
(* loadEnvFile on its own: one call on a .env file of one KEY=VALUE line *)

\* Longest value written in the .env file
MaxValueLen == 3

ValueSymbols == {"a", "=", "\"", "'"}

FileValues == UNION {[1..n -> ValueSymbols] : n \in 0..MaxValueLen}

\* The .env files of one line, KEY=VALUE
OneLineFiles ==
    {<< k \o <<"=">> \o v >> : k \in {KeyName, KeyEmail}, v \in FileValues}

InitEnv ==
    /\ version = "v2"
    /\ argv = <<>>
    /\ envName = Undef
    /\ envEmail = Undef
    /\ envFile \in OneLineFiles
    /\ gitName = Failed
    /\ gitEmail = Failed
    /\ pc = "load"
    /\ args = NoArgs
    /\ Started
    /\ branch = Detached
    /\ NoFilter
    /\ fileVars = NotLoaded

\* const envVars = loadEnvFile()
LoadEnv ==
    /\ pc = "load"
    /\ fileVars' = loadEnvFile(envFile)
    /\ pc' = "loaded"
    /\ UNCHANGED <<inputVars, args, author, consulted, out, shown, rlOpen, exitCode,
                   execs, interrupted, promptVars, filterVars, errorMessage>>

NextEnv == LoadEnv

SpecEnv == InitEnv /\ [][NextEnv]_vars

-----------------------------------------------------------------------------
(* main under the assumption that the user answers: every step that can    *)
(* be taken is taken in the end.  The rewrite subprocess is one step of    *)
(* AnswerLine, so it terminates.                                           *)

\* Argument lists for each path of main: none, help, dry run, both flags,
\* one flag, a flag without value, help taken as a value
LiveArgvs ==
    {<<>>, <<<<"--help">>>>, <<<<"--dry-run">>>>,
     <<<<"--name">>, <<"A">>, <<"--email">>, <<"A">>>>,
     <<<<"--name">>, <<"A">>, <<"--email">>, <<"A">>, <<"--dry-run">>>>,
     <<<<"--name">>, <<"A">>>>, <<<<"--email">>>>, <<<<"--name">>, <<"--help">>>>}

\* The sources below the flags: none supplies anything, the environment
\* supplies both fields, the .env file does, git config does, or the
\* environment supplies the name and git config the email
LiveSources ==
    LET none == [envName |-> Undef, envEmail |-> Undef, envFile |-> Missing,
                 gitName |-> Failed, gitEmail |-> Failed]
    IN  {none,
         [none EXCEPT !.envName = <<"E", "n">>, !.envEmail = <<"E", "e">>],
         [none EXCEPT !.envFile = FileBoth],
         [none EXCEPT !.gitName = <<"G", "n", "\n">>, !.gitEmail = <<"G", "e", "\n">>],
         [none EXCEPT !.envName = <<"E", "n">>, !.gitEmail = <<"G", "e", "\n">>]}

InitLive ==
    /\ version \in Versions
    /\ argv \in LiveArgvs
    /\ \E s \in LiveSources :
          /\ envName = s.envName
          /\ envEmail = s.envEmail
          /\ envFile = s.envFile
          /\ gitName = s.gitName
          /\ gitEmail = s.gitEmail
    /\ version = "v1" => NoSources
    /\ pc = "start"
    /\ args = NoArgs
    /\ Started
    /\ branch = Detached
    /\ NoFilter
    /\ fileVars = NotLoaded

SpecLive == InitLive /\ [][Next]_vars /\ WF_vars(Next)

-----------------------------------------------------------------------------

(* loadEnvFile on files of several lines, some of them to be ignored *)

\* Most lines of such a file
MaxFileLines == 3

\* Lines with an entry, and blank, comment and malformed lines
EntryLines ==
    {<<"GIT_AUTHOR_NAME", "=", "a">>, <<"GIT_AUTHOR_NAME", "=", "c">>,
     <<"GIT_AUTHOR_EMAIL", "=", "b">>}

IgnoredLines ==
    {<<>>, <<" ">>, <<"#", "GIT_AUTHOR_NAME", "=", "x">>, <<" ", "#", "x">>,
     <<"GIT_AUTHOR_NAME">>, <<"=", "x">>, <<"GIT_AUTHOR_EMAIL", "=">>}

SampleFiles == UNION {[1..n -> EntryLines \cup IgnoredLines] : n \in 0..MaxFileLines}

InitEnvLines ==
    /\ version = "v2"
    /\ argv = <<>>
    /\ envName = Undef
    /\ envEmail = Undef
    /\ envFile \in SampleFiles
    /\ gitName = Failed
    /\ gitEmail = Failed
    /\ pc = "load"
    /\ args = NoArgs
    /\ Started
    /\ branch = Detached
    /\ NoFilter
    /\ fileVars = NotLoaded

SpecEnvLines == InitEnvLines /\ [][NextEnv]_vars

-----------------------------------------------------------------------------

(* Properties *)

\* x is an element of the sequence s
Has(s, x) == \E i \in DOMAIN s : s[i] = x

\* getAuthorInfo has returned an identity to main
Resolved == pc \in {"announce", "prompt", "returned"} \/ shown # NoAuthor

\* What each source supplies for a field, after the source's own parsing
FileNameValue == Get(loadEnvFile(envFile), KeyName)
FileEmailValue == Get(loadEnvFile(envFile), KeyEmail)

\* The first of four values that is set, in priority order
Highest(flag, env, file, git) == OrElse(OrElse(OrElse(flag, env), file), git)

NoSourceHasName ==
    ~Truthy(args.name) /\ ~Truthy(envName) /\ ~Truthy(FileNameValue)
    /\ ~Truthy(getGitConfig(gitName))

NoSourceHasEmail ==
    ~Truthy(args.email) /\ ~Truthy(envEmail) /\ ~Truthy(FileEmailValue)
    /\ ~Truthy(getGitConfig(gitEmail))

\* Identities made to break out of a shell line
CraftedIdentities ==
    {[name |-> <<"a", "$(", "id", ")">>, email |-> <<"e">>],
     [name |-> <<"a", "\"", ";", "id", ";", "\"">>, email |-> <<"BACKTICK", "id", "BACKTICK">>]}

\* C1 (Spec): the command line given to the shell for the rewrite is the same
\* text whatever the identity is: the line executed in a run is also the line a
\* run with any crafted identity executes, the identity travelling only in the
\* subprocess environment.
C1_CommandIndependentOfIdentity ==
    \A i \in DOMAIN execs : \A id \in CraftedIdentities :
        execs[i].cmd = RewriteCommand(version, id.name, id.email)

\* C2 (Spec): once part_005 has parsed --dry-run, main is never at the
\* confirmation prompt, has asked no question and has run no command; and when
\* the identity resolved, the run ends having written the preview.
C2_DryRunNeverRewrites ==
    (version = "v2" /\ args.dryRun) =>
        /\ pc # "prompt"
        /\ ~Has(out, "question")
        /\ execs = <<>>
        /\ (pc \in {"returned", "exited"} /\ exitCode # 1 => Has(out, "would execute"))

\* A dry run of part_005 that resolved an identity, wrote the preview and ended
C2_Witness ==
    /\ version = "v2" /\ args.dryRun /\ pc = "exited" /\ exitCode = 0
    /\ Truthy(shown.name) /\ Has(out, "would execute")

\* C3 (Spec): after an interrupt at the confirmation prompt the process has
\* exited and no rewrite command was run in that run, nor is one ever run.
C3_InterruptNeverRewrites ==
    interrupted => pc = "exited" /\ execs = <<>> /\ ~Has(out, "rewriting")

\* An interrupt arrived at the prompt of a run whose identity had been shown
C3_Witness == interrupted /\ pc = "exited" /\ Truthy(shown.name) /\ Has(out, "question")

\* C4 (SpecResolve): each field of the identity getAuthorInfo returns is the
\* value of the highest-priority source that supplies that field, flags first,
\* then environment, .env file, git config.
C4_PerFieldPriority ==
    Resolved =>
        /\ author.name = Highest(args.name, envName, FileNameValue, getGitConfig(gitName))
        /\ author.email = Highest(args.email, envEmail, FileEmailValue, getGitConfig(gitEmail))

\* C5 (SpecResolve): with both flags given a value, getAuthorInfo returns the
\* two flag values and has read no other source.
C5_BothFlagsWin ==
    (pc # "resolve" /\ Truthy(args.name) /\ Truthy(args.email)) =>
        /\ author = [name |-> args.name, email |-> args.email]
        /\ consulted = {}
        /\ ~Has(out, "error: no author information")

\* Both flags given while the environment, the .env file and git config all
\* supply both fields too
C5_Witness ==
    /\ pc = "prompt" /\ Truthy(args.name) /\ Truthy(args.email)
    /\ Truthy(envName) /\ Truthy(envEmail)
    /\ Truthy(FileNameValue) /\ Truthy(FileEmailValue)
    /\ Truthy(getGitConfig(gitName)) /\ Truthy(getGitConfig(gitEmail))
    /\ author.name = args.name

\* C6 (SpecResolve): when no source supplies the name, or none supplies the
\* email, getAuthorInfo ends the process with exit code 1: no identity is
\* shown, no question is asked and no command is run.
C6_MissingIdentityExits ==
    (pc # "resolve" /\ (NoSourceHasName \/ NoSourceHasEmail)) =>
        /\ pc = "exited"
        /\ exitCode = 1
        /\ Has(out, "error: no author information")
        /\ shown = NoAuthor
        /\ ~Has(out, "question")
        /\ execs = <<>>

\* The name is supplied and the email by no source, and the process has exited
C6_Witness ==
    /\ pc = "exited" /\ exitCode = 1
    /\ ~NoSourceHasName /\ NoSourceHasEmail
    /\ consulted = {"env", "file", "git.email"}

\* C7 (SpecResolve): an identity that getAuthorInfo returned has a non-empty
\* name and a non-empty email, and so has the identity of every prompt and of
\* every rewrite.
C7_IdentityComplete ==
    /\ Resolved => Truthy(author.name) /\ Truthy(author.email)
    /\ Has(out, "question") => Truthy(shown.name) /\ Truthy(shown.email)
    /\ \A i \in DOMAIN execs :
          /\ Truthy(execs[i].env.GIT_AUTHOR_NAME)
          /\ Truthy(execs[i].env.GIT_AUTHOR_EMAIL)

\* A rewrite ran with a name from git config and an email from the environment,
\* the higher sources holding empty strings for the name
C7_Witness ==
    /\ execs # <<>>
    /\ args.name = <<>> /\ envName = <<>>
    /\ consulted = {"env", "file", "git.name"}
    /\ author.name = getGitConfig(gitName) /\ author.email = envEmail

\* C8 (Spec): a run that ended by showing help, by a dry-run preview, by a
\* successful rewrite or by cancellation at the prompt has exit code 0; a run
\* in which identity resolution failed or the rewrite failed has exit code 1.
C8_ExitCodes ==
    pc = "exited" =>
        /\ (Has(out, "usage") \/ Has(out, "rerun") \/ Has(out, "rewritten") \/ interrupted)
              => exitCode = 0
        /\ (Has(out, "error: no author information") \/ Has(out, "error: command failed"))
              => exitCode = 1

\* C9 (Spec): main runs the rewrite command at most once, and when it exited
\* nonzero the process has exited with code 1 without reporting success.
C9_NoRetry ==
    /\ Len(execs) <= 1
    /\ (execs # <<>> /\ execs[1].status # 0) =>
          pc = "exited" /\ exitCode = 1 /\ ~Has(out, "rewritten")

\* The rewrite command exited nonzero
C9_Witness ==
    /\ execs # <<>> /\ execs[1].status # 0
    /\ pc = "exited" /\ Has(out, "error: command failed")

\* C10 (SpecFilter): a message in which neither the marker text nor the
\* trailer text occurs leaves the message filter as it entered it, line for
\* line, its blank lines included.
C10_CleanMessageUnchanged ==
    (pc = "filtered" /\ ~Contains(msg, Marker) /\ ~Contains(msg, Trailer)) =>
        filtered = msg

\* C11 (SpecFilter): what the message filter writes holds no occurrence of the
\* marker text and no occurrence of the trailer text, whatever the message was
\* and whichever of the two filters ran.
C11_NoAttributionLeft ==
    pc = "filtered" => ~Contains(filtered, Marker) /\ ~Contains(filtered, Trailer)

\* C12 (SpecStamp): every commit leaves the identity filter with the resolved
\* name as author name and committer name and the resolved email as author
\* email and committer email, whatever the commit held before.
C12_EveryCommitStamped ==
    pc = "stamped" =>
        /\ stamped.GIT_AUTHOR_NAME = author.name
        /\ stamped.GIT_COMMITTER_NAME = author.name
        /\ stamped.GIT_AUTHOR_EMAIL = author.email
        /\ stamped.GIT_COMMITTER_EMAIL = author.email

\* The rewrite command of the run exited with status 0
RewriteSucceeded == execs # <<>> /\ ~IsPush(execs[1]) /\ execs[1].status = 0

\* C13 (SpecPush): once main has returned from a run with auto-push, a
\* successful rewrite and a branch that could be determined, it has run the
\* push with --force-with-lease for that branch; no command of any run is a
\* push without the lease, and no push is run unless the rewrite succeeded.
C13_SafePushOnly ==
    /\ (args.autoPush /\ RewriteSucceeded /\ branch # Detached
          /\ pc \in {"returned", "exited"}) =>
            \E i \in DOMAIN execs : execs[i].cmd = PushCommand(branch)
    /\ \A i \in DOMAIN execs :
            IsPush(execs[i]) =>
                /\ Has(execs[i].cmd, "--force-with-lease")
                /\ ~Has(execs[i].cmd, "--force")
                /\ i > 1 /\ RewriteSucceeded /\ args.autoPush

\* The push ran after a successful rewrite, on a branch
C13_Witness ==
    /\ args.autoPush /\ RewriteSucceeded /\ branch = <<"dev">>
    /\ Len(execs) = 2 /\ IsPush(execs[2]) /\ pc = "exited"

\* The push of the run failed, or was skipped for want of a branch
PushFailure ==
    /\ args.autoPush /\ RewriteSucceeded
    /\ \/ branch = Detached
       \/ \E i \in DOMAIN execs : IsPush(execs[i]) /\ execs[i].status # 0

\* C14 (SpecPush): in a run with auto-push whose rewrite succeeded and whose
\* push failed or was skipped for want of a branch, the rewrite is reported
\* successful, the push failure is reported after it, the process has not
\* exited with a code other than 0, and once it has exited the code is 0.
C14_PushFailureNotFatal ==
    PushFailure =>
        /\ Has(out, "rewritten")
        /\ Has(out, "push guidance")
        /\ ~Has(out, "error: command failed")
        /\ exitCode \in {NoExit, 0}
        /\ pc \in {"returned", "exited"}
        /\ (pc = "exited" => exitCode = 0)

\* The push command failed and the process has exited
C14_Witness ==
    /\ PushFailure /\ branch # Detached /\ pc = "exited"
    /\ Len(execs) = 2 /\ execs[2].status = 1 /\ Has(out, "push failed")

\* C15 (Spec): a line read at the confirmation prompt, whatever it holds, is
\* followed by the rewrite command; a run that left the prompt without
\* running the rewrite was interrupted.
C15_OnlyInterruptCancels ==
    /\ answer # NoAnswer =>
          execs # <<>> /\ execs[1].cmd = RewriteCommand(version, author.name, author.email)
    /\ (Has(out, "question") /\ pc # "prompt" /\ execs = <<>>) => interrupted

\* C15 amended (Spec): a line read at the confirmation prompt, whatever it
\* holds, is followed by the rewrite command; a run that left the prompt
\* without running the rewrite was interrupted or saw standard input end
\* before a line was read, and has exited.
C15_EveryLineProceeds ==
    /\ answer # NoAnswer =>
          /\ execs # <<>>
          /\ execs[1].cmd = RewriteCommand(version, author.name, author.email)
          /\ Has(out, "rewriting")
    /\ (Has(out, "question") /\ pc # "prompt" /\ execs = <<>>) =>
          /\ interrupted \/ stdinEnded
          /\ answer = NoAnswer
          /\ pc = "exited"

\* The line 'no' was read at the prompt and the rewrite ran and succeeded
C15_Witness ==
    /\ answer = <<"n", "o">> /\ execs # <<>> /\ execs[1].status = 0
    /\ Has(out, "rewritten") /\ pc = "exited"

\* C16 (SpecResolve): with neither flag set, an environment that supplies the
\* email and not the name, and a .env file that supplies both fields,
\* getAuthorInfo returns the .env file's name with the environment's email.
C16_EnvEmailOverFileName ==
    (pc # "resolve" /\ ~Truthy(args.name) /\ ~Truthy(args.email)
       /\ ~Truthy(envName) /\ Truthy(envEmail)
       /\ Truthy(FileNameValue) /\ Truthy(FileEmailValue)) =>
        /\ Resolved
        /\ author = [name |-> FileNameValue, email |-> envEmail]
        /\ ~Has(out, "error: no author information")

\* The identity was shown with the file's name and the environment's email,
\* the file's email being another one and git config supplying both fields too
C16_Witness ==
    /\ pc = "prompt" /\ args.name = Undef /\ args.email = Undef
    /\ envName = Undef /\ envEmail = <<"E">>
    /\ FileNameValue = <<"F", "n">> /\ FileEmailValue = <<"F", "e">>
    /\ Truthy(getGitConfig(gitName)) /\ Truthy(getGitConfig(gitEmail))
    /\ shown = [name |-> <<"F", "n">>, email |-> <<"E">>]

\* --help or -h is one of the arguments
HelpGiven == \E i \in DOMAIN argv : argv[i] \in HelpFlags

\* C17 (Spec): when --help or -h is among the arguments, whatever the others
\* are, parseArgs writes the usage text and the process exits with code 0: no
\* identity is resolved, no question is asked and no command is run.
C17_HelpAlwaysWins ==
    (HelpGiven /\ pc # "start") =>
        /\ pc = "exited"
        /\ exitCode = 0
        /\ out = <<"usage">>
        /\ author = NoAuthor /\ consulted = {}
        /\ ~Has(out, "question")
        /\ execs = <<>>

\* Some occurrence of one of the flags is followed by a non-empty argument
Supplied(flags) ==
    \E i \in DOMAIN argv : argv[i] \in flags /\ i < Len(argv) /\ argv[i + 1] # <<>>

\* C18 (Spec): in noclaude.ts, when the arguments hold no help flag and the
\* name flag or the email flag is absent or is nowhere followed by a value,
\* parseArgs writes the error and the process exits with code 1: nothing is
\* announced, no question is asked and no command is run.
C18_BothFlagsMandatory ==
    (version = "v1" /\ pc # "start" /\ ~HelpGiven
       /\ (~Supplied(NameFlags) \/ ~Supplied(EmailFlags))) =>
        /\ pc = "exited"
        /\ exitCode = 1
        /\ out = <<"error: both flags required", "error: see --help">>
        /\ shown = NoAuthor
        /\ execs = <<>>

\* The name was given and the email flag came last, without a value
C18_Witness ==
    /\ version = "v1" /\ argv = <<<<"--name">>, <<"A">>, <<"--email">>>>
    /\ pc = "exited" /\ exitCode = 1 /\ Has(out, "error: both flags required")

\* x is a piece of one of the arguments of the console.error call
Reports(x) == \E k \in DOMAIN errorMessage : Has(errorMessage[k], x)

\* What git filter-branch writes to its stderr when refs/original exists
GitDiagnostic == "A previous backup already exists in refs/original/"

\* The command that removes the backup refs of an earlier rewrite
CleanupCommand == "git for-each-ref --format=... refs/original/ | git update-ref --stdin"

\* C19 (Spec): when the rewrite command exited nonzero, the error main
\* reports names the command that failed, holds what the command wrote as its
\* diagnostic, and gives the command that removes the refs/original backup.
C19_ErrorTellsNextAction ==
    (execs # <<>> /\ execs[1].status # 0) =>
        /\ Reports("git filter-branch --env-filter '")
        /\ Reports(GitDiagnostic)
        /\ Reports(CleanupCommand)

\* The key and the value as written in the one line of the .env file: the
\* key is the first symbol, the value is what follows the first "="
WrittenKey == <<envFile[1][1]>>
WrittenValue == SubSeq(envFile[1], 3, Len(envFile[1]))

\* v is a quoted value: it starts and ends with the same quote character
Quoted(v) == Len(v) >= 2 /\ Head(v) \in Quotes /\ v[Len(v)] = Head(v)

\* One layer of surrounding quotes off a quoted value, any other value as it is
Unquoted(v) == IF Quoted(v) THEN SubSeq(v, 2, Len(v) - 1) ELSE v

\* C20 (SpecEnv): for a line KEY=VALUE, loadEnvFile returns under KEY all that
\* follows the first "=", further "=" included, less one layer of surrounding
\* quotes when the value is quoted, and unchanged when it is not.
C20_FirstEqualsOneQuoteLayer ==
    (pc = "loaded" /\ Unquoted(WrittenValue) # <<>>) =>
        Get(fileVars, WrittenKey) = Unquoted(WrittenValue)

\* No source below the flags supplies the field
LowerLacksName ==
    ~Truthy(envName) /\ ~Truthy(FileNameValue) /\ ~Truthy(getGitConfig(gitName))

LowerLacksEmail ==
    ~Truthy(envEmail) /\ ~Truthy(FileEmailValue) /\ ~Truthy(getGitConfig(gitEmail))

\* C21 (SpecResolve): a missing .env file and a failing git config query
\* count as sources that supply nothing.  getAuthorInfo never returns a
\* failure as a field, and it ends the process only through its last check:
\* when it did, the flags were not both set and the sources below them left
\* the name or the email unset; with a missing file or a failing query and
\* both fields supplied by the other sources below the flags, it returns.
C21_AbsentSourceSuppliesNothing ==
    pc # "resolve" =>
        /\ author.name # Failed /\ author.email # Failed
        /\ Has(out, "error: no author information") =>
              /\ ~FlagsComplete(args)
              /\ LowerLacksName \/ LowerLacksEmail
              /\ exitCode = 1
        /\ ((envFile = Missing \/ gitName = Failed \/ gitEmail = Failed)
              /\ ~LowerLacksName /\ ~LowerLacksEmail) => Resolved

\* The .env file is missing and was looked for, the query for the email would
\* fail: the name came from git config and the email from the environment
C21_Witness ==
    /\ envFile = Missing /\ gitEmail = Failed /\ gitName = <<"G", "\n">>
    /\ ~Truthy(envName) /\ envEmail = <<"E">>
    /\ consulted = {"env", "file", "git.name"}
    /\ pc = "prompt" /\ shown = [name |-> <<"G">>, email |-> <<"E">>]

\* C22 (SpecFilter): the message filter applied to its own output gives that
\* output again.
C22_FilterIdempotent ==
    pc = "filtered" => MsgFilter(version, filtered) = filtered

\* Line x was written before line y
Before(x, y) == \E i, j \in DOMAIN out : i < j /\ out[i] = x /\ out[j] = y

\* C23 (Spec): when the rewrite command has been invoked, the identity had
\* been resolved to a name and an email, the warning and then the identity
\* line had been written, the question had been asked after them and a line
\* of input had been received, all before the line that opens the rewrite;
\* nothing had failed before, and the run is not a dry run.
C23_ResolveConfirmExecute ==
    execs # <<>> =>
        /\ Truthy(author.name) /\ Truthy(author.email)
        /\ shown = author
        /\ ~Has(out, "error: no author information")
        /\ ~Has(out, "error: both flags required")
        /\ ~Has(out, "usage")
        /\ Before("warning", "author")
        /\ Before("author", "question")
        /\ Before("question", "line")
        /\ Before("line", "rewriting")
        /\ answer # NoAnswer
        /\ ~IsDryRun(version, args)

\* part_005 resolved the identity from the sources below the flags, an empty
\* line was entered and the rewrite ran
C23_Witness ==
    /\ version = "v2" /\ consulted # {} /\ answer = <<>>
    /\ execs # <<>> /\ pc = "exited" /\ Has(out, "rewritten")

\* C24 (Spec): the rewrite is given the name and the email that the identity
\* line showed: they are the ones in the command's filter script and in the
\* four identity variables of the subprocess environment, and the identity
\* main holds is still the one shown.
C24_IdentityUnchanged ==
    \A i \in DOMAIN execs :
        /\ execs[i].cmd = RewriteCommand(version, shown.name, shown.email)
        /\ execs[i].env.GIT_AUTHOR_NAME = shown.name
        /\ execs[i].env.GIT_COMMITTER_NAME = shown.name
        /\ execs[i].env.GIT_AUTHOR_EMAIL = shown.email
        /\ execs[i].env.GIT_COMMITTER_EMAIL = shown.email
        /\ author = shown

\* part_005 showed an identity taken from the environment and ran the rewrite
C24_Witness ==
    /\ version = "v2" /\ consulted = {"env"} /\ shown = [name |-> envName, email |-> envEmail]
    /\ execs # <<>> /\ Has(out, "author") /\ Has(out, "rewriting")

\* The field as the flags and the environment supply it, and as the flags,
\* the environment and the .env file supply it
NameAfterEnv == OrElse(args.name, envName)
EmailAfterEnv == OrElse(args.email, envEmail)
NameAfterFile == OrElse(NameAfterEnv, FileNameValue)
EmailAfterFile == OrElse(EmailAfterEnv, FileEmailValue)

\* C25 (SpecResolve): getAuthorInfo reads the .env file only when the flags
\* and the environment leave the name or the email unset, and queries git
\* config for a field only when the flags, the environment and the .env file
\* leave that field unset; it reads the environment only when the flags leave
\* a field unset.
C25_LazySources ==
    /\ "env" \in consulted => ~Truthy(args.name) \/ ~Truthy(args.email)
    /\ "file" \in consulted => ~Truthy(NameAfterEnv) \/ ~Truthy(EmailAfterEnv)
    /\ "git.name" \in consulted => ~Truthy(NameAfterFile)
    /\ "git.email" \in consulted => ~Truthy(EmailAfterFile)

\* A line that is not blank and holds neither the marker nor the trailer
Clean(line) == ~IsBlank(line) /\ ~Occurs(line, Marker) /\ ~Occurs(line, Trailer)

\* a is b with some elements left out
RECURSIVE IsSubseq(_, _)
IsSubseq(a, b) ==
    IF a = <<>> THEN TRUE
    ELSE IF b = <<>> THEN FALSE
    ELSE IF Head(a) = Head(b) THEN IsSubseq(Tail(a), Tail(b))
    ELSE IsSubseq(a, Tail(b))

\* The pieces the marker and the trailer are made of
FragmentSymbols == {"ROBOT", "GEN", "Co-Authored-By: ", "Claude <noreply@anthropic.com>"}

\* The text of a line outside those pieces
Rest(line) == SelectSeq(line, LAMBDA c : c \notin FragmentSymbols)

\* C26 (SpecFilter): the lines of the message that are not blank and hold
\* neither the marker nor the trailer are in the output, unchanged and in
\* their order; and of a one-line message the text outside the marker and the
\* trailer is in the output line as it was in the input line.
C26_RestIntact ==
    pc = "filtered" =>
        /\ IsSubseq(SelectSeq(msg, Clean), filtered)
        /\ (Len(msg) = 1 /\ ~IsBlank(Rest(msg[1]))) =>
              Len(filtered) = 1 /\ Rest(filtered[1]) = Rest(msg[1])

\* A line the parser is to ignore: blank, a comment, without "=", with
\* nothing before the first "=" or nothing after it
Ignorable(line) ==
    LET t == Trim(line)
    IN  \/ t = <<>>
        \/ Head(t) = "#"
        \/ ~Has(t, "=")
        \/ Head(t) = "="
        \/ (t[Len(t)] = "=" /\ ~Has(SubSeq(t, 1, Len(t) - 1), "="))

\* C27 (SpecEnvLines): loadEnvFile returns for a file what it returns for the
\* file without its blank, comment and malformed lines; a file of such lines
\* only gives the empty map.
C27_IgnoredLinesAddNothing ==
    pc = "loaded" =>
        /\ fileVars = loadEnvFile(SelectSeq(envFile, LAMBDA l : ~Ignorable(l)))
        /\ (\A k \in DOMAIN envFile : Ignorable(envFile[k])) => fileVars = <<>>

\* A comment that looks like an entry, an entry, and a line without "="
C27_Witness ==
    /\ pc = "loaded"
    /\ envFile = <<<<"#", "GIT_AUTHOR_NAME", "=", "x">>, <<"GIT_AUTHOR_NAME", "=", "a">>,
                   <<"GIT_AUTHOR_NAME">>>>
    /\ Get(fileVars, KeyName) = <<"a">> /\ Get(fileVars, KeyEmail) = Undef

\* The source holds no string, or the empty one
Unset(v) == v \in {Undef, <<>>}

\* C28 (SpecResolve): in getAuthorInfo the empty string is an unset value,
\* whichever source holds it.  No field of a returned identity is the empty
\* string.  An empty flag makes it read the environment, an empty environment
\* variable the .env file, an empty .env entry (the field not set higher up)
\* makes it query git config for that field, and empty git config output for
\* a field that is still unset ends the run with the missing-identity error.
C28_EmptyIsUnset ==
    pc # "resolve" =>
        /\ Resolved => author.name # <<>> /\ author.email # <<>>
        /\ (args.name = <<>> \/ args.email = <<>>) => "env" \in consulted
        /\ ("env" \in consulted /\ (envName = <<>> \/ envEmail = <<>>)) =>
              "file" \in consulted
        /\ ("file" \in consulted /\ Unset(envName) /\ FileNameValue = <<>>) =>
              "git.name" \in consulted
        /\ ("file" \in consulted /\ Unset(envEmail) /\ FileEmailValue = <<>>) =>
              "git.email" \in consulted
        /\ \/ ("git.name" \in consulted /\ getGitConfig(gitName) = <<>>)
           \/ ("git.email" \in consulted /\ getGitConfig(gitEmail) = <<>>)
           => /\ pc = "exited" /\ exitCode = 1
              /\ Has(out, "error: no author information")
              /\ execs = <<>>

\* The name is the empty string as a flag, in the environment and in the
\* .env file, and the identity shown has the name git config holds
C28_Witness ==
    /\ args.name = <<>> /\ envName = <<>> /\ FileNameValue = <<>>
    /\ envEmail = <<>> /\ Truthy(FileEmailValue)
    /\ "git.name" \in consulted /\ "git.email" \notin consulted
    /\ pc = "prompt" /\ shown.name = <<"G">> /\ shown.email = FileEmailValue

\* C29 (SpecLive): every run of main in which the user's answer and the end
\* of the rewrite subprocess arrive ends with the process exited; and main
\* has never returned with the readline interface still open.
C29_EveryRunTerminates ==
    /\ <>(pc = "exited")
    /\ [](pc = "returned" => ~rlOpen)

\* The rewrite failed and the process exited from the catch block, the
\* readline interface never closed
C29_Witness ==
    /\ pc = "exited" /\ exitCode = 1 /\ Has(out, "error: command failed") /\ rlOpen

\* What noclaude.ts parses from the arguments
FirstVersionParse == ParseLoop("v1", argv, 1, NoArgs).parsed

\* The arguments hold no help flag and no dry-run flag, and noclaude.ts finds
\* a name and an email in them
BothFlagsOnly ==
    /\ \A i \in DOMAIN argv : argv[i] \notin HelpFlags \cup DryRunFlags
    /\ ~RequiredMissing(FirstVersionParse)

\* The lines noclaude.ts can have written, run by run
FirstVersionEvents ==
    LET asked == <<"warning", "author", "press enter", "question">>
    IN  {<<>>, asked,
         asked \o <<"line", "rewriting", "rewritten", "push hint">>,
         asked \o <<"line", "rewriting", "error: command failed">>}

\* C30 (Spec): on arguments that give both flags and neither help nor dry
\* run, a run of part_005 shows what a run of noclaude.ts shows: the identity
\* is the one noclaude.ts parses, no other source is read, the lines written
\* are lines noclaude.ts writes in that order, the rewrite command and its
\* environment are those of noclaude.ts for that identity, and the exit code
\* after the rewrite is 0 on success and 1 on failure.
C30_SameAsFirstVersion ==
    (version = "v2" /\ BothFlagsOnly /\ pc \notin {"start", "resolve"}) =>
        /\ author = [name |-> FirstVersionParse.name, email |-> FirstVersionParse.email]
        /\ consulted = {}
        /\ out \in FirstVersionEvents
        /\ \A i \in DOMAIN execs :
              /\ execs[i].cmd = RewriteCommand("v1", author.name, author.email)
              /\ execs[i].env = SubprocessEnv(author.name, author.email)
              /\ pc = "exited" => exitCode = (IF execs[i].status = 0 THEN 0 ELSE 1)

====
